---- MODULE Spec2Model ----
(***************************************************************************)
(* Model of the brute-force seed phrase search of src/main.go (the second  *)
(* program of the file, lines 144-467): the generator run by main, the     *)
(* worker pool fed through the jobs channel, the periodic progress saver,  *)
(* the interrupt handler, the checkpoint file progress.json and pow.       *)
(*                                                                         *)
(* Go slices are modelled as TLA+ sequences: Go's x[i] is x[i + 1] here.   *)
(* Phrase positions and wordlist indices keep their 0-based values.        *)
(* A word is an integer: 0 is the empty string, wordlist[j] is j + 1 and   *)
(* the words typed by the operator are 100 + something.                    *)
(***************************************************************************)
EXTENDS Integers, Sequences, FiniteSets, Bags, TLC

\* ---------------------------------------------------------------- constants
\* The literal 12 of main and generateCombinations: the phrase length.
PhraseLen == 12
\* Size of the BIP39 wordlist, the x of pow(len(wordlist), ...).
Bip39Size == 2048

\* ------------------------------------------------------------------- bounds
\* Largest search space (wordlist size ^ missing words) that is enumerated.
MaxSpace == 4
\* Largest wordlist the search is run with (2048 words in the source).
MaxL == 2
\* Largest wordlist and largest number of missing words Decode is run with.
MaxRadix == 4
MaxDigits == 3
\* Largest value given to MaxGoroutines (4 in the source, "adjust based on
\* your CPU"): the number of workers and the capacity of jobs.
MaxWorkers == 2
\* Most words typed beyond the 12 of a phrase (line 198 takes any number).
MaxExtra == 1

\* A nil pointer, or nothing printed.
Nil == [nil |-> TRUE]
EmptyWord == 0
TargetAddr == "TTarget"
OtherAddr == "TOther"

\* ------------------------------------------------------- int64 arithmetic
\* An int64 is four 16-bit limbs, least significant first, two's complement.
Base == 65536

Int64Of(n) == <<n % Base, n \div Base, 0, 0>>

RECURSIVE MulLimbs(_, _, _, _)
MulLimbs(a, x, j, carry) ==
    IF j > Len(a) THEN <<>>
    ELSE LET p == a[j] * x + carry
         IN  <<p % Base>> \o MulLimbs(a, x, j + 1, p \div Base)

\* result *= int64(x) with the wrap-around of a 64-bit multiplication
\* (0 <= x < 2^15): the carry out of the fourth limb is lost.
Mul64(a, x) == MulLimbs(a, x, 1, 0)

IsNeg64(a) == a[4] >= 32768
IsZero64(a) == a = <<0, 0, 0, 0>>

\* The value of an int64 that fits the model's integers.
Int64ToInt(a) ==
    IF a[3] = 0 /\ a[4] = 0 /\ a[2] < 16384 THEN a[1] + a[2] * Base
    ELSE IF IsNeg64(a) THEN -1
    ELSE 1073741824

\* One iteration of pow's loop.
PowBody(result, x) == Mul64(result, x)

RECURSIVE PowLoop(_, _, _, _)
PowLoop(result, i, x, y) ==
    IF i < y THEN PowLoop(PowBody(result, x), i + 1, x, y) ELSE result

\* func pow(x, y int) int64
pow(x, y) == PowLoop(Int64Of(1), 0, x, y)

\* ------------------------------------------------------------ pure helpers
\* bip39.GetWordList() cut to l words: wordlist[j] (0-based) is j + 1.
WordList(l) == [j \in 1..l |-> j]

\* The loop without the division of num.
RECURSIVE DecodeLoopNoDiv(_, _, _, _)
DecodeLoopNoDiv(indices, num, j, l) ==
    IF j < 0 THEN indices
    ELSE DecodeLoopNoDiv([indices EXCEPT ![j + 1] = num % l], num, j - 1, l)

\* The inner loop of generateCombinations, lines 317-321:
\* for j := len(indices)-1; j >= 0; j-- { indices[j] = num % L; num /= L }
RECURSIVE DecodeLoop(_, _, _, _)
DecodeLoop(indices, num, j, l) ==
    IF j < 0 THEN indices
    ELSE DecodeLoop([indices EXCEPT ![j + 1] = num % l], num \div l, j - 1, l)

\* The digits written from the first position on: least significant first.
RECURSIVE DecodeLoopUp(_, _, _, _)
DecodeLoopUp(indices, num, j, l) ==
    IF j >= Len(indices) THEN indices
    ELSE DecodeLoopUp([indices EXCEPT ![j + 1] = num % l], num \div l, j + 1, l)

DecodeLsdFirst(indices, i, l) == DecodeLoopUp(indices, i, 0, l)

\* Lines 317-321: the digits of index i.
Decode(indices, i, l) == DecodeLoop(indices, i, Len(indices) - 1, l)

\* Lines 295-297: words[progress.KnownPositions[i]] = word, in order.
RECURSIVE FillKnown(_, _, _, _)
FillKnown(words, kw, kp, i) ==
    IF i > Len(kw) THEN words
    ELSE FillKnown([words EXCEPT ![kp[i] + 1] = kw[i]], kw, kp, i + 1)

\* The loop of lines 295-297 indexes out of range (and panics) when a known
\* position has no entry or lies outside the 12 words.
KnownFits(kw, kp) ==
    /\ Len(kp) >= Len(kw)
    /\ \A i \in 1..Len(kw) : kp[i] \in 0..(PhraseLen - 1)

\* Lines 300-305: the positions still empty, ascending.
RECURSIVE MissingFrom(_, _)
MissingFrom(words, p) ==
    IF p >= PhraseLen THEN <<>>
    ELSE (IF words[p + 1] = EmptyWord THEN <<p>> ELSE <<>>)
         \o MissingFrom(words, p + 1)

MissingPositions(words) == MissingFrom(words, 0)

\* Lines 324-326: words[pos] = wordlist[indices[j]].
RECURSIVE FillMissing(_, _, _, _, _)
FillMissing(words, mp, indices, wl, j) ==
    IF j > Len(mp) THEN words
    ELSE FillMissing([words EXCEPT ![mp[j] + 1] = wl[indices[j] + 1]],
                     mp, indices, wl, j + 1)

EmptyWords == [p \in 1..PhraseLen |-> EmptyWord]

\* The positions main gives the known words when AllPositionsAreKnown.
IdentityPositions(n) == [i \in 1..n |-> i - 1]

\* The words the operator types: n words, none of them in the wordlist.
TypedWords(n, variant) == [i \in 1..n |-> variant + i]

\* The candidate of index i for known words kw at the positions kp.
CandidateOf(kw, kp, wl, i) ==
    LET base == FillKnown(EmptyWords, kw, kp, 1)
        mp == MissingPositions(base)
        ind == Decode([j \in 1..Len(mp) |-> 0], i, Len(wl))
    IN  FillMissing(base, mp, ind, wl, 1)

\* ------------------------------------------------------- derivation oracle
\* The derivation of an address from a mnemonic (bip39, hdkeychain, crypto)
\* is outside the program: oracle names at most one mnemonic that derives to
\* the target address or on which a derivation step fails.
Derive(orc, mnemonic) ==
    IF orc.kind # "none" /\ orc.mnemonic = mnemonic
    THEN (IF orc.kind = "match" THEN [err |-> FALSE, address |-> TargetAddr]
          ELSE [err |-> TRUE, address |-> ""])
    ELSE [err |-> FALSE, address |-> OtherAddr]

\* checkWallet without the comparison with the target address.
checkWalletNeverOk(orc, mnemonic, target) ==
    [address |-> Derive(orc, mnemonic).address, ok |-> FALSE]

\* checkWallet taking a failed derivation for a success.
checkWalletNoErr(orc, mnemonic, target) ==
    LET d == Derive(orc, mnemonic)
    IN  [address |-> d.address, ok |-> (d.err \/ d.address = target)]

\* func checkWallet(mnemonic, targetAddr string) (string, bool)
checkWallet(orc, mnemonic, target) ==
    LET d == Derive(orc, mnemonic)
    IN  IF d.err THEN [address |-> "", ok |-> FALSE]
        ELSE [address |-> d.address, ok |-> (d.address = target)]

\* --------------------------------------------------------- checkpoint file
\* json.Marshal(progress): the object with the tags of type Progress.
Marshal(p) ==
    [last_index |-> p.LastIndex,
     tested_combinations |-> p.TestedCombos,
     known_words |-> p.KnownWords,
     known_positions |-> p.KnownPositions]

\* json.Unmarshal into a Progress.
Unmarshal(d) ==
    [LastIndex |-> d.last_index,
     TestedCombos |-> d.tested_combinations,
     KnownWords |-> d.known_words,
     KnownPositions |-> d.known_positions]

\* loadProgress dropping the error of json.Unmarshal: malformed content
\* gives the zero Progress.
loadProgressLenient(f) ==
    IF f.state \in {"missing", "unreadable"} THEN Nil
    ELSE IF f.state = "malformed"
    THEN [LastIndex |-> 0, TestedCombos |-> 0, KnownWords |-> <<>>,
          KnownPositions |-> <<>>]
    ELSE Unmarshal(f.data)

\* func loadProgress() *Progress
loadProgress(f) ==
    IF f.state \in {"missing", "unreadable"} THEN Nil
    ELSE IF f.state = "malformed" THEN Nil
    ELSE Unmarshal(f.data)

\* progress == nil branch of main, lines 222-244.
FreshProgress(kw) ==
    [LastIndex |-> -1,
     TestedCombos |-> 0,
     KnownWords |-> kw,
     KnownPositions |-> IdentityPositions(Len(kw))]

\* Lines 221-244: the Progress main goes on with.
StartProgress(f, kw) ==
    IF loadProgress(f) = Nil THEN FreshProgress(kw) ELSE loadProgress(f)

\* func saveProgress(progress *Progress): what the file holds afterwards.
\* The error of os.WriteFile is dropped. A write that fails at the opening of
\* the file leaves the file as it was; one that fails later leaves it
\* truncated, with content that is no JSON document.
saveProgress(f, p, outcome) ==
    IF outcome = "ok"
    THEN [state |-> "valid", data |-> Marshal(p), by |-> "this run"]
    ELSE IF outcome = "partial"
    THEN [state |-> "malformed", data |-> Nil, by |-> "this run"]
    ELSE f

SaveOutcomes == {"ok", "failed", "partial"}

\* A saver that gives up when a save has failed.
SaverAfterSaveStrict(outcome) == IF outcome = "ok" THEN "select" ELSE "done"

\* Lines 437-439: whatever the save did, the loop of the saver goes on.
SaverAfterSave(outcome) == "select"

\* ------------------------------------------------------------------- state
VARIABLES
    knownWords,   \* the words typed by the operator (line 198)
    wordlist,     \* bip39.GetWordList() (line 218)
    oracle,       \* the derivation pipeline behind checkWallet
    maxGoroutines, \* the build's MaxGoroutines (line 168)
    file,         \* progress.json
    progress,     \* *Progress shared by main, workers and saver; Nil before
    ctxDone,      \* ctx.Done() is closed
    interrupted,  \* the interrupt goroutine has run cancel()
    jobs,         \* contents of the jobs channel
    jobsClosed,   \* close(jobs) was executed
    wg,           \* the WaitGroup counter
    mainPc,       \* position of the main goroutine
    gen,          \* locals of generateCombinations
    workers,      \* the worker goroutines: a bag of [pc, job], job being
                  \* the words the worker received last
    saverPc,      \* position of saveProgressPeriodically
    proc,         \* "running", "exited" or "panicked"
    reported,     \* the match printed, or Nil
    printed,      \* the count printed by line 271, -1 before
    recvd,        \* history: index -> receives from jobs
    called,       \* history: index -> checkWallet calls started by workers
    startFile,    \* history: progress.json as loadProgress found it
    pw,           \* the run of pow that PowSpec steps through
    dec           \* the run of the decoding loop DecodeSpec steps through

inputs == <<knownWords, wordlist, oracle, maxGoroutines>>
history == <<recvd, called, startFile>>
calc == <<pw, dec>>
vars == <<knownWords, wordlist, oracle, maxGoroutines, file, progress, ctxDone, interrupted,
          jobs, jobsClosed, wg, mainPc, gen, workers, saverPc, proc,
          reported, printed, recvd, called, startFile, pw, dec>>

NoJob == [idx |-> -1, words |-> <<>>]

\* n goroutines started by go worker(...), each about to range over jobs.
Spawned(n) == [x \in {[pc |-> "recv", job |-> NoJob]} |-> n]

\* The bag of workers after the worker w has moved on to v.
Moved(w, v) == (workers (-) SetToBag({w})) (+) SetToBag({v})

\* The size of the search space the generator loops over (line 311).
TotalOf(l, k) == Int64ToInt(pow(l, k))

\* Missing-word counts and wordlist sizes whose search space is enumerated.
Enumerable(l, k) == TotalOf(l, k) <= MaxSpace /\ TotalOf(2, k) <= MaxSpace

NoGen == [i |-> -1, startIndex |-> -1, words |-> <<>>, indices |-> <<>>,
          missingPositions |-> <<>>, pending |-> <<>>]
PwIdle == [x |-> 0, y |-> 0, i |-> 0, result |-> Int64Of(1), done |-> TRUE]
DecIdle == [l |-> 0, i |-> 0, indices |-> <<>>, seen |-> {}, done |-> TRUE]

NoFile == [state |-> "missing", data |-> Nil, by |-> "nobody"]
NoOracle == [kind |-> "none", mnemonic |-> <<>>]

\* The checkpoint files a run can find: none, an unreadable or malformed one,
\* or one saved by an earlier run over n known words.
Files(n, total) ==
    {[state |-> s, data |-> Nil, by |-> "nobody"] :
        s \in {"missing", "unreadable", "malformed"}}
    \cup
    {[state |-> "valid", by |-> "an earlier run",
      data |-> Marshal([LastIndex |-> li, TestedCombos |-> li + 1,
                        KnownWords |-> TypedWords(n, v),
                        KnownPositions |-> IdentityPositions(n)])] :
        li \in (-1)..(total - 1), v \in {100, 200}}

Oracles(kw, wl, total) ==
    {NoOracle}
    \cup
    {[kind |-> k,
      mnemonic |-> CandidateOf(kw, IdentityPositions(Len(kw)), wl, s)] :
        k \in {"match", "error"}, s \in 0..(total - 1)}

MainIdle ==
    /\ progress = Nil
    /\ ctxDone = FALSE
    /\ interrupted = FALSE
    /\ jobs = <<>>
    /\ jobsClosed = FALSE
    /\ wg = 0
    /\ mainPc = "start"
    /\ gen = NoGen
    /\ workers = EmptyBag
    /\ saverPc = "unborn"
    /\ proc = "running"
    /\ reported = Nil
    /\ printed = -1
    /\ recvd = <<>>
    /\ called = <<>>
    /\ startFile = Nil

\* A run starts with no checkpoint and any oracle, or with any checkpoint
\* file and an oracle without match or failure. The operator types up to
\* 12 + MaxExtra words; no 12 words can be built from more than 12, so no
\* candidate is named by the oracle then.
Init ==
    /\ maxGoroutines \in 1..MaxWorkers
    /\ \E l \in 1..MaxL, k \in (-MaxExtra)..PhraseLen :
          /\ Enumerable(l, k)
          /\ wordlist = WordList(l)
          /\ knownWords = TypedWords(PhraseLen - k, 100)
          /\ \/ /\ file = NoFile
                /\ oracle \in IF k < 0 THEN {NoOracle}
                              ELSE Oracles(knownWords, wordlist, TotalOf(l, k))
             \/ /\ file \in Files(PhraseLen - k, TotalOf(l, k))
                /\ oracle = NoOracle
    /\ MainIdle
    /\ pw = PwIdle
    /\ dec = DecIdle

\* ------------------------------------------------------------------- main
\* Lines 194-264: read the input; with 12 words test them and return,
\* otherwise load or create the Progress and start workers and saver.
MainStart ==
    /\ proc = "running" /\ mainPc = "start"
    /\ startFile' = IF Len(knownWords) = PhraseLen THEN Nil ELSE file
    /\ IF Len(knownWords) = PhraseLen
       THEN LET r == checkWallet(oracle, knownWords, TargetAddr)
            IN  /\ reported' = IF r.ok
                               THEN [address |-> r.address, words |-> knownWords]
                               ELSE Nil
                /\ mainPc' = "defer"
                /\ UNCHANGED <<progress, workers, wg, saverPc>>
       ELSE /\ progress' = StartProgress(file, knownWords)
            /\ workers' = Spawned(maxGoroutines)
            /\ wg' = maxGoroutines
            /\ saverPc' = "select"
            /\ mainPc' = "geninit"
            /\ UNCHANGED reported
    /\ UNCHANGED <<inputs, file, ctxDone, interrupted, jobs, jobsClosed, gen,
                   proc, printed, recvd, called, calc>>

\* A start at the last index of the checkpoint itself.
StartIndexAgain(p) == p.LastIndex

\* A start one index too far.
StartIndexSkipping(p) == p.LastIndex + 2

\* Line 309: startIndex := progress.LastIndex + 1
StartIndex(p) == p.LastIndex + 1

\* A poll that never sees the cancellation.
SelectDoneBlind(done) == FALSE

\* Lines 312-315 and 278-281: select { case <-ctx.Done(): ... default: ... }
\* takes the first branch exactly when ctx.Done() is closed.
SelectDone(done) == done

\* The bound of the loop of line 311.
GenTotal(g) == TotalOf(Len(wordlist), Len(g.missingPositions))

\* Lines 292-309: the prologue of generateCombinations.
GenInit ==
    /\ proc = "running" /\ mainPc = "geninit"
    /\ IF ~KnownFits(progress.KnownWords, progress.KnownPositions)
       THEN /\ proc' = "panicked"
            /\ UNCHANGED <<gen, mainPc, recvd, called>>
       ELSE LET w0 == FillKnown(EmptyWords, progress.KnownWords,
                                progress.KnownPositions, 1)
                mp == MissingPositions(w0)
                g == [i |-> StartIndex(progress),
                      startIndex |-> StartIndex(progress),
                      words |-> w0,
                      indices |-> [j \in 1..Len(mp) |-> 0],
                      missingPositions |-> mp,
                      pending |-> <<>>]
            IN  /\ gen' = g
                /\ recvd' = [i \in 0..(GenTotal(g) - 1) |-> 0]
                /\ called' = [i \in 0..(GenTotal(g) - 1) |-> 0]
                /\ mainPc' = "loop"
                /\ UNCHANGED proc
    /\ UNCHANGED <<inputs, file, progress, ctxDone, interrupted, jobs,
                   jobsClosed, wg, workers, saverPc, reported,
                   printed, startFile, calc>>

\* Slices sent without a copy: they all share the buffer words, and read
\* what the generator wrote into it last.
SentWordsShared(sent, buffer) == buffer

\* Lines 329-332: what a slice sent earlier holds once the generator has
\* written the next candidate into its buffer words. Every slice sent is a
\* copy made for it (wordsCopy), so it holds what it held.
SentWords(sent, buffer) == sent

\* Lines 311-330: the loop test, the poll of ctx.Done() and, in the default
\* branch, the candidate of index i written into words and copied into
\* wordsCopy.
GenLoop ==
    /\ proc = "running" /\ mainPc = "loop"
    /\ IF ~(gen.i < GenTotal(gen)) \/ SelectDone(ctxDone)
       THEN /\ mainPc' = "close"
            /\ UNCHANGED <<gen, jobs, workers>>
       ELSE LET ind == Decode(gen.indices, gen.i, Len(wordlist))
                ws == FillMissing(gen.words, gen.missingPositions, ind,
                                  wordlist, 1)
                Seen(w) == [w EXCEPT !.job.words = SentWords(@, ws)]
            IN  /\ gen' = [gen EXCEPT !.indices = ind, !.words = ws,
                                      !.pending = ws]
                /\ jobs' = [j \in DOMAIN jobs |->
                              [jobs[j] EXCEPT !.words = SentWords(@, ws)]]
                /\ workers' = BagOfAll(Seen, workers)
                /\ mainPc' = "send"
    /\ UNCHANGED <<inputs, file, progress, ctxDone, interrupted,
                   jobsClosed, wg, saverPc, proc, reported,
                   printed, history, calc>>

\* A channel of twice the capacity.
ChanCapDouble(n) == 2 * n

\* Line 247: jobs := make(chan []string, MaxGoroutines).
ChanCap(n) == n

\* Lines 332-333 and the i++ of line 311: jobs <- wordsCopy, blocking while
\* the channel is full, then the store of LastIndex.
GenSend ==
    /\ proc = "running" /\ mainPc = "send"
    /\ Len(jobs) < ChanCap(maxGoroutines)
    /\ jobs' = Append(jobs, [idx |-> gen.i, words |-> gen.pending])
    /\ progress' = [progress EXCEPT !.LastIndex = gen.i]
    /\ gen' = [gen EXCEPT !.i = gen.i + 1]
    /\ mainPc' = "loop"
    /\ UNCHANGED <<inputs, file, ctxDone, interrupted, jobsClosed, wg,
                   workers, saverPc, proc, reported, printed, history, calc>>

\* Line 268.
MainClose ==
    /\ proc = "running" /\ mainPc = "close"
    /\ jobsClosed' = TRUE
    /\ mainPc' = "wait"
    /\ UNCHANGED <<inputs, file, progress, ctxDone, interrupted, jobs, wg, gen,
                   workers, saverPc, proc, reported, printed, history,
                   calc>>

\* A Wait that returns whatever the counter is.
WaitDoneEarly(n) == TRUE

\* Line 269: wg.Wait() blocks until the counter is zero.
WaitDone(n) == n = 0

\* Lines 269-271: wg.Wait() returns when the counter is zero, then the count
\* of tested combinations is printed.
MainWait ==
    /\ proc = "running" /\ mainPc = "wait"
    /\ WaitDone(wg)
    /\ printed' = progress.TestedCombos
    /\ mainPc' = "defer"
    /\ UNCHANGED <<inputs, file, progress, ctxDone, interrupted, jobs,
                   jobsClosed, wg, gen, workers, saverPc, proc,
                   reported, history, calc>>

\* Line 183: the deferred cancel() runs when main returns.
MainDefer ==
    /\ proc = "running" /\ mainPc = "defer"
    /\ ctxDone' = TRUE
    /\ mainPc' = "return"
    /\ UNCHANGED <<inputs, file, progress, interrupted, jobs, jobsClosed, wg,
                   gen, workers, saverPc, proc, reported, printed,
                   history, calc>>

\* main has returned: the process ends, whatever the other goroutines do.
MainReturn ==
    /\ proc = "running" /\ mainPc = "return"
    /\ proc' = "exited"
    /\ UNCHANGED <<inputs, file, progress, ctxDone, interrupted, jobs,
                   jobsClosed, wg, mainPc, gen, workers, saverPc,
                   reported, printed, history, calc>>

\* Lines 188-192: the goroutine waiting for os.Interrupt.
Interrupt ==
    /\ proc = "running" /\ ~interrupted
    /\ interrupted' = TRUE
    /\ ctxDone' = TRUE
    /\ UNCHANGED <<inputs, file, progress, jobs, jobsClosed, wg, mainPc, gen,
                   workers, saverPc, proc, reported, printed, history,
                   calc>>

\* ----------------------------------------------------------------- worker
\* Line 277: for words := range jobs. The loop ends, and the deferred
\* wg.Add(-1) runs, when the channel is closed and drained.
WorkerRecv(w) ==
    /\ proc = "running" /\ w.pc = "recv"
    /\ IF jobs # <<>>
       THEN /\ workers' = Moved(w, [pc |-> "select", job |-> Head(jobs)])
            /\ jobs' = Tail(jobs)
            /\ recvd' = [recvd EXCEPT ![Head(jobs).idx] = @ + 1]
            /\ UNCHANGED wg
       ELSE /\ jobsClosed
            /\ workers' = Moved(w, [w EXCEPT !.pc = "exhausted"])
            /\ wg' = wg - 1
            /\ UNCHANGED <<jobs, recvd>>
    /\ UNCHANGED <<inputs, file, progress, ctxDone, interrupted, jobsClosed,
                   mainPc, gen, saverPc, proc, reported, printed, called,
                   startFile, calc>>

\* Lines 278-282: the poll of ctx.Done(); in the default branch checkWallet
\* is called.
WorkerSelect(w) ==
    /\ proc = "running" /\ w.pc = "select"
    /\ IF SelectDone(ctxDone)
       THEN /\ workers' = Moved(w, [w EXCEPT !.pc = "cancelled"])
            /\ wg' = wg - 1
            /\ UNCHANGED called
       ELSE /\ workers' = Moved(w, [w EXCEPT !.pc = "check"])
            /\ called' = [called EXCEPT ![w.job.idx] = @ + 1]
            /\ UNCHANGED wg
    /\ UNCHANGED <<inputs, file, progress, ctxDone, interrupted, jobs,
                   jobsClosed, mainPc, gen, saverPc, proc, reported, printed,
                   recvd, startFile, calc>>

\* Lines 282-286: checkWallet returns; without a match the counter is
\* incremented and the loop goes on.
WorkerCheck(w) ==
    /\ proc = "running" /\ w.pc = "check"
    /\ IF checkWallet(oracle, w.job.words, TargetAddr).ok
       THEN /\ workers' = Moved(w, [w EXCEPT !.pc = "found"])
            /\ UNCHANGED progress
       ELSE /\ workers' = Moved(w, [w EXCEPT !.pc = "recv"])
            /\ progress' = [progress EXCEPT !.TestedCombos = @ + 1]
    /\ UNCHANGED <<inputs, file, ctxDone, interrupted, jobs, jobsClosed, wg,
                   mainPc, gen, saverPc, proc, reported, printed, history, calc>>

\* Lines 283-284: the match is printed and os.Exit(0) ends the process.
WorkerExit(w) ==
    /\ proc = "running" /\ w.pc = "found"
    /\ reported' = [address |-> checkWallet(oracle, w.job.words,
                                            TargetAddr).address,
                    words |-> w.job.words]
    /\ proc' = "exited"
    /\ UNCHANGED <<inputs, file, progress, ctxDone, interrupted, jobs,
                   jobsClosed, wg, mainPc, gen, workers, saverPc, printed,
                   history, calc>>

\* ------------------------------------------------------------------ saver
\* Lines 437-439: the ticker fired.
SaverTick ==
    /\ proc = "running" /\ saverPc = "select"
    /\ \E outcome \in SaveOutcomes :
          /\ file' = saveProgress(file, progress, outcome)
          /\ saverPc' = SaverAfterSave(outcome)
    /\ UNCHANGED <<inputs, progress, ctxDone, interrupted, jobs, jobsClosed,
                   wg, mainPc, gen, workers, proc, reported,
                   printed, history, calc>>

\* Lines 434-436: ctx.Done() is closed: the last save, then return.
SaverDone ==
    /\ proc = "running" /\ saverPc = "select"
    /\ ctxDone
    /\ \E outcome \in SaveOutcomes :
          file' = saveProgress(file, progress, outcome)
    /\ saverPc' = "done"
    /\ UNCHANGED <<inputs, progress, ctxDone, interrupted, jobs, jobsClosed,
                   wg, mainPc, gen, workers, proc, reported, printed,
                   history, calc>>

Next ==
    \/ MainStart
    \/ GenInit
    \/ GenLoop
    \/ GenSend
    \/ MainClose
    \/ MainWait
    \/ MainDefer
    \/ MainReturn
    \/ Interrupt
    \/ \E w \in BagToSet(workers) : WorkerRecv(w)
    \/ \E w \in BagToSet(workers) : WorkerSelect(w)
    \/ \E w \in BagToSet(workers) : WorkerCheck(w)
    \/ \E w \in BagToSet(workers) : WorkerExit(w)
    \/ SaverTick
    \/ SaverDone

Spec == Init /\ [][Next]_vars

\* A step of the main goroutine, and a step of some worker.
MainStep ==
    \/ MainStart \/ GenInit \/ GenLoop \/ GenSend
    \/ MainClose \/ MainWait \/ MainDefer \/ MainReturn

WorkerStep ==
    \E w \in BagToSet(workers) :
        WorkerRecv(w) \/ WorkerSelect(w) \/ WorkerCheck(w) \/ WorkerExit(w)

\* ------------------------------------------------------------ pow, stepped
\* The fixed rest of the state while pow or the decoding loop is stepped.
CalcIdle ==
    /\ knownWords = <<>>
    /\ wordlist = <<>>
    /\ oracle = NoOracle
    /\ maxGoroutines = 1
    /\ file = NoFile
    /\ MainIdle

PowInit ==
    /\ \E x \in {Bip39Size} \cup 1..MaxL, y \in 0..PhraseLen :
          pw = [x |-> x, y |-> y, i |-> 0, result |-> Int64Of(1),
                done |-> FALSE]
    /\ dec = DecIdle
    /\ CalcIdle

\* Lines 463-465: one iteration of the loop of pow.
PowStep ==
    /\ ~pw.done /\ pw.i < pw.y
    /\ pw' = [pw EXCEPT !.result = PowBody(pw.result, pw.x), !.i = pw.i + 1]
    /\ UNCHANGED <<inputs, file, progress, ctxDone, interrupted, jobs,
                   jobsClosed, wg, mainPc, gen, workers, saverPc, proc,
                   reported, printed, history, dec>>

\* Line 466: return result.
PowReturn ==
    /\ ~pw.done /\ ~(pw.i < pw.y)
    /\ pw' = [pw EXCEPT !.done = TRUE]
    /\ UNCHANGED <<inputs, file, progress, ctxDone, interrupted, jobs,
                   jobsClosed, wg, mainPc, gen, workers, saverPc, proc,
                   reported, printed, history, dec>>

PowNext == PowStep \/ PowReturn

PowSpec == PowInit /\ [][PowNext]_vars

\* ------------------------------------------- the decoding loop, stepped
DecodeInit ==
    /\ \E l \in 1..MaxRadix, k \in 0..MaxDigits :
          dec = [l |-> l, i |-> 0, indices |-> [j \in 1..k |-> 0],
                 seen |-> {}, done |-> FALSE]
    /\ pw = PwIdle
    /\ CalcIdle

\* Lines 311-321 without the channel: the loop test and the digits of i.
DecodeStep ==
    /\ ~dec.done /\ dec.i < TotalOf(dec.l, Len(dec.indices))
    /\ LET ind == Decode(dec.indices, dec.i, dec.l)
       IN  dec' = [dec EXCEPT !.indices = ind, !.seen = @ \cup {ind},
                              !.i = dec.i + 1]
    /\ UNCHANGED <<inputs, file, progress, ctxDone, interrupted, jobs,
                   jobsClosed, wg, mainPc, gen, workers, saverPc, proc,
                   reported, printed, history, pw>>

\* The loop of line 311 ends.
DecodeEnd ==
    /\ ~dec.done /\ ~(dec.i < TotalOf(dec.l, Len(dec.indices)))
    /\ dec' = [dec EXCEPT !.done = TRUE]
    /\ UNCHANGED <<inputs, file, progress, ctxDone, interrupted, jobs,
                   jobsClosed, wg, mainPc, gen, workers, saverPc, proc,
                   reported, printed, history, pw>>

DecodeNext == DecodeStep \/ DecodeEnd

DecodeSpec == DecodeInit /\ [][DecodeNext]_vars

\* ================================================================= claims
\* The run searches by brute force (fewer than 12 words were typed).
BruteForce == Len(knownWords) # PhraseLen
\* The size of the search space of the words typed.
InputTotal == TotalOf(Len(wordlist), PhraseLen - Len(knownWords))
\* main is past wg.Wait().
PastWait == mainPc \in {"defer", "return"}
\* The run started without a usable checkpoint.
FreshRun == mainPc # "start" /\ BruteForce /\ startFile.state # "valid"
\* Number of workers at the position pc.
WorkersAt(pc) ==
    BagCardinality([w \in {v \in BagToSet(workers) : v.pc = pc} |->
                    CopiesIn(w, workers)])

\* C1: on a fresh run without interrupt and without a matching candidate,
\* once main is past wg.Wait() every index of [0, N) was received from the
\* channel exactly once and checkWallet was called exactly once for it; at
\* no time is an index received or tested twice, or tested without having
\* been received.
C1_ExactlyOnce ==
    (FreshRun /\ mainPc # "geninit" /\ proc # "panicked") =>
        /\ DOMAIN called = 0..(InputTotal - 1)
        /\ \A i \in DOMAIN called :
              /\ recvd[i] <= 1
              /\ called[i] <= recvd[i]
              /\ (PastWait /\ ~interrupted /\ oracle.kind # "match") =>
                    (recvd[i] = 1 /\ called[i] = 1)

\* A run of two workers over the largest space is past wg.Wait() with every
\* index tested once.
C1_Witness ==
    /\ FreshRun /\ PastWait /\ ~interrupted /\ oracle.kind # "match"
    /\ maxGoroutines >= 2
    /\ InputTotal = MaxSpace
    /\ \A i \in 0..(InputTotal - 1) : called[i] = 1

\* The match was printed and the process has ended.
MatchReported ==
    /\ proc = "exited"
    /\ reported = [address |-> TargetAddr, words |-> oracle.mnemonic]

\* A run without a usable checkpoint whose search space holds the match.
FreshMatchRun ==
    /\ oracle.kind = "match"
    /\ IF mainPc = "start" THEN file.state # "valid"
       ELSE (BruteForce => startFile.state # "valid")

\* What is left to do for main and the workers: it is never negative and
\* every step of main or of a worker lowers it, so that there are only
\* finitely many such steps in a run.
MainRank ==
    CASE mainPc = "start" -> 6 * MaxSpace + 2 * MaxWorkers + 7
      [] mainPc = "geninit" -> 6 * MaxSpace + 6
      [] mainPc = "loop" -> 6 * (MaxSpace - gen.i) + 5
      [] mainPc = "send" -> 6 * (MaxSpace - gen.i) + 4
      [] mainPc = "close" -> 4
      [] mainPc = "wait" -> 3
      [] mainPc = "defer" -> 2
      [] OTHER -> 1
WorkerRank(w) ==
    CASE w.pc = "recv" -> 2
      [] w.pc = "select" -> 5
      [] w.pc = "check" -> 4
      [] w.pc = "found" -> 3
      [] OTHER -> 0
RECURSIVE SumRanks(_)
SumRanks(ws) ==
    IF ws = {} THEN 0
    ELSE LET w == CHOOSE v \in ws : TRUE
         IN  WorkerRank(w) * CopiesIn(w, workers) + SumRanks(ws \ {w})
Rank ==
    IF proc # "running" THEN 0
    ELSE 1 + MainRank + 4 * Len(jobs) + SumRanks(BagToSet(workers))

\* C2 as stated: (a) on a fresh run whose search space holds the matching
\* candidate and that no interrupt reaches, that candidate is eventually
\* reported and the process halts: the run never ends otherwise, main or a
\* worker can always take a step until then (which fair scheduling makes
\* them take) and only finitely many such steps exist; (b) once a worker has
\* seen checkWallet return the match, no worker starts another call of
\* checkWallet.
C2_NoCallAfterMatch ==
    /\ [](FreshMatchRun /\ ~interrupted =>
            IF proc = "running" THEN ENABLED (MainStep \/ WorkerStep)
            ELSE MatchReported)
    /\ [](Rank >= 0)
    /\ [][\/ Rank' < Rank
          \/ UNCHANGED <<mainPc, gen, jobs, jobsClosed, workers, wg, proc,
                         progress, reported, printed>>]_vars
    /\ [][WorkersAt("found") > 0 => called' = called]_vars

\* C2 as amended: (a) as above; (b) nothing but the matching candidate is
\* ever reported; (c) a worker that has seen the match does nothing but
\* print it and end the process, which it does without waiting for anyone:
\* until os.Exit runs the other workers may still start calls of
\* checkWallet, and after it nothing happens at all.
C2_MatchTermination ==
    /\ [](FreshMatchRun /\ ~interrupted =>
            IF proc = "running" THEN ENABLED (MainStep \/ WorkerStep)
            ELSE MatchReported)
    /\ [](Rank >= 0)
    /\ [][\/ Rank' < Rank
          \/ UNCHANGED <<mainPc, gen, jobs, jobsClosed, workers, wg, proc,
                         progress, reported, printed>>]_vars
    /\ [](reported # Nil =>
            /\ oracle.kind = "match"
            /\ reported = [address |-> TargetAddr, words |-> oracle.mnemonic])
    /\ [][/\ \A w \in BagToSet(workers) :
                w.pc = "found" =>
                    \/ CopiesIn(w, workers') >= CopiesIn(w, workers)
                    \/ proc' = "exited"
          /\ WorkersAt("found") > 0 /\ proc' = "exited" => MatchReported'
          /\ proc = "exited" => called' = called]_vars

\* The process has ended on a match while another worker was still inside
\* checkWallet and the generator had not finished.
C2_Witness ==
    /\ MatchReported
    /\ BruteForce /\ ~interrupted
    /\ WorkersAt("check") > 0
    /\ mainPc \in {"loop", "send"}

\* All the digit tuples of k digits below l.
DigitSpace(l, k) == [1..k -> 0..(l - 1)]

\* C3: for a wordlist of l >= 1 words and k missing words the loop over
\* [0, l^k) decodes every index to a tuple of k digits below l that no
\* earlier index gave, and when the loop ends every tuple was produced: the
\* decoding is a bijection between [0, l^k) and [0, l)^k.
C3_DecodeBijection ==
    dec.l >= 1 =>
        /\ dec.seen \subseteq DigitSpace(dec.l, Len(dec.indices))
        /\ Cardinality(dec.seen) = dec.i
        /\ dec.done => dec.seen = DigitSpace(dec.l, Len(dec.indices))

\* The loop has ended for the largest wordlist and the most missing words.
C3_Witness ==
    /\ dec.done
    /\ dec.l = MaxRadix /\ Len(dec.indices) = MaxDigits
    /\ dec.i = TotalOf(MaxRadix, MaxDigits)
    /\ Cardinality(dec.seen) = dec.i

\* The checkpoint found at startup belongs to the words typed: same words at
\* the same positions.
Compatible(f, kw) ==
    /\ f.state = "valid"
    /\ Unmarshal(f.data).KnownWords = kw
    /\ Unmarshal(f.data).KnownPositions = IdentityPositions(Len(kw))

\* C4: right after startup the Progress is the loaded checkpoint if and only
\* if the checkpoint's known words and positions are those of this run;
\* otherwise it is a fresh Progress (LastIndex -1, nothing tested, the words
\* typed).
C4_CompatibleResume ==
    (BruteForce /\ mainPc = "geninit") =>
        progress = IF Compatible(startFile, knownWords)
                   THEN Unmarshal(startFile.data)
                   ELSE FreshProgress(knownWords)

\* C5: a checkpoint saved by this run holds a last_index up to which every
\* index, from the index the run started at, has been given to checkWallet.
C5_SavedIndexTested ==
    (file.by = "this run" /\ file.state = "valid"
        /\ mainPc \notin {"start", "geninit"}) =>
        \A i \in gen.startIndex..file.data.last_index : called[i] >= 1

\* The search was cut short by an interrupt and the process has ended
\* without a match.
InterruptedExit ==
    /\ proc = "exited" /\ interrupted /\ reported = Nil
    /\ saverPc # "unborn"
    /\ progress.LastIndex < GenTotal(gen) - 1

\* C6: when an interrupt has cut the search short, the saver has completed
\* its save of the ctx.Done() branch by the time the process ends.
C6_FinalSaveOnInterrupt == InterruptedExit => saverPc = "done"

\* The value of a natural number given as 16-bit limbs without bound.
RECURSIVE BigMul(_, _, _, _)
BigMul(a, x, j, carry) ==
    IF j > Len(a) THEN (IF carry = 0 THEN <<>> ELSE <<carry>>)
    ELSE LET p == a[j] * x + carry
         IN  <<p % Base>> \o BigMul(a, x, j + 1, p \div Base)

RECURSIVE BigPow(_, _)
BigPow(x, y) == IF y = 0 THEN <<1>> ELSE BigMul(BigPow(x, y - 1), x, 1, 0)

RECURSIVE Strip(_)
Strip(a) ==
    IF a # <<>> /\ a[Len(a)] = 0 THEN Strip(SubSeq(a, 1, Len(a) - 1)) ELSE a

\* The int64 a is the natural number big.
Int64Is(a, big) == ~IsNeg64(a) /\ Strip(a) = Strip(big)

\* C7: for every count y of missing words in 0..12, pow(2048, y) returns
\* 2048^y, which is at least 1.
C7_PowExact ==
    (pw.done /\ pw.x = Bip39Size /\ pw.y \in 0..PhraseLen) =>
        /\ Int64Is(pw.result, BigPow(pw.x, pw.y))
        /\ ~IsNeg64(pw.result) /\ ~IsZero64(pw.result)

\* C8: a call of checkWallet is started only by a worker at its poll of
\* ctx.Done(), and only when the poll finds it open; a worker that has seen
\* the cancellation stays where it is; the generator leaves its loop when
\* its poll finds ctx.Done() closed and, once it has left the loop, nothing
\* is added to jobs; a call of checkWallet in progress can always return.
C8_CancellationPolled ==
    /\ [][LET started == \E i \in DOMAIN called :
                            i \in DOMAIN called' /\ called'[i] > called[i]
          IN  /\ started =>
                    /\ ~ctxDone
                    /\ \E w \in BagToSet(workers) :
                          /\ w.pc = "select"
                          /\ workers' = Moved(w, [w EXCEPT !.pc = "check"])
              /\ WorkersAt("check")' > WorkersAt("check") => started
              /\ \A w \in BagToSet(workers) :
                    w.pc = "cancelled" =>
                        CopiesIn(w, workers') >= CopiesIn(w, workers)
              /\ (mainPc = "loop" /\ ctxDone /\ mainPc' # mainPc) =>
                    mainPc' = "close"
              /\ mainPc \in {"close", "wait", "defer", "return"} =>
                    Len(jobs') <= Len(jobs)]_vars
    /\ [](\A w \in BagToSet(workers) :
            (w.pc = "check" /\ proc = "running") => ENABLED WorkerCheck(w))

\* After an interrupt one worker has seen the cancellation and returned,
\* another is still inside checkWallet and the generator has left its loop
\* before the end of the search space.
C8_Witness ==
    /\ interrupted /\ proc = "running"
    /\ WorkersAt("cancelled") > 0
    /\ WorkersAt("check") > 0
    /\ mainPc = "wait"
    /\ gen.i < GenTotal(gen)

\* Number of calls of checkWallet started by the workers.
RECURSIVE SumCalls(_)
SumCalls(is) ==
    IF is = {} THEN 0
    ELSE LET i == CHOOSE j \in is : TRUE
         IN  called[i] + SumCalls(is \ {i})

\* C9: when the derivation fails on a candidate, no match is reported for
\* it and no worker takes it for one, the process does not crash, every
\* call of checkWallet that has returned (the failed one too) is counted in
\* TestedCombos, and a fresh run that is not interrupted still tests the
\* whole search space and prints its size.
C9_OracleFailureNonFatal ==
    (oracle.kind = "error" /\ FreshRun /\ mainPc # "geninit") =>
        /\ reported = Nil
        /\ WorkersAt("found") = 0
        /\ proc = "running" \/ (proc = "exited" /\ mainPc = "return")
        /\ progress.TestedCombos = SumCalls(DOMAIN called) - WorkersAt("check")
        /\ (PastWait /\ ~interrupted) =>
              /\ printed = InputTotal
              /\ \A i \in DOMAIN called : called[i] = 1

\* A run of two workers over the largest space, one candidate failing, has
\* printed the size of the space.
C9_Witness ==
    /\ oracle.kind = "error" /\ FreshRun /\ PastWait /\ ~interrupted
    /\ maxGoroutines >= 2
    /\ InputTotal = MaxSpace
    /\ printed = MaxSpace

\* loadProgress returned nil at startup.
LoadedNone == startFile.state \in {"missing", "unreadable", "malformed"}

\* C10: when progress.json is missing, unreadable or malformed, a run with
\* fewer than 12 words typed goes on (no crash) with a fresh Progress: LastIndex -1, nothing tested, the
\* words typed at their positions; the generator starts at index 0, which is
\* the first index it puts into jobs.
C10_LoadNeverFails ==
    (Len(knownWords) < PhraseLen /\ mainPc # "start" /\ LoadedNone) =>
        /\ proc # "panicked"
        /\ progress.KnownWords = knownWords
        /\ progress.KnownPositions = IdentityPositions(Len(knownWords))
        /\ mainPc = "geninit" => progress = FreshProgress(knownWords)
        /\ mainPc # "geninit" =>
              /\ gen.startIndex = 0
              /\ progress.LastIndex >= 0 =>
                    \/ recvd[0] >= 1
                    \/ (jobs # <<>> /\ Head(jobs).idx = 0)

\* A run that found a malformed progress.json has had index 0 tested.
C10_Witness ==
    /\ BruteForce /\ mainPc # "start"
    /\ startFile.state = "malformed"
    /\ gen.startIndex = 0
    /\ progress.LastIndex >= 0
    /\ called[0] = 1

\* More words were typed than a phrase holds.
TooManyWords == Len(knownWords) > PhraseLen

\* C11: when more than 12 words are typed the process does not go into the
\* brute-force mode: no worker and no saver is started, nothing is put into
\* jobs, checkWallet is not called and the process does not crash.
C11_ConfigErrorFailsFast ==
    TooManyWords =>
        /\ workers = EmptyBag
        /\ saverPc = "unborn"
        /\ jobs = <<>>
        /\ \A i \in DOMAIN called : called[i] = 0
        /\ proc # "panicked"

\* Number of workers that have not returned.
WorkersRunning ==
    WorkersAt("recv") + WorkersAt("select") + WorkersAt("check")
        + WorkersAt("found")

\* C12: the count of line 271 is printed only when the generator has
\* returned, jobs is closed and every worker has returned; on a fresh run
\* without match and without interrupt the generator has then gone through
\* the whole space, nothing is left in jobs and the count printed is N; the
\* counter TestedCombos never decreases.
C12_ExhaustionReport ==
    /\ [](printed # -1 =>
            /\ mainPc \in {"defer", "return"}
            /\ jobsClosed
            /\ WorkersRunning = 0
            /\ wg = 0
            /\ (FreshRun /\ ~interrupted /\ oracle.kind # "match") =>
                  /\ gen.i = InputTotal
                  /\ jobs = <<>>
                  /\ printed = InputTotal
                  /\ progress.TestedCombos = InputTotal)
    /\ [][(mainPc # "start" /\ BruteForce) =>
            progress'.TestedCombos >= progress.TestedCombos]_vars

\* The count of the largest space is printed, every worker having returned
\* on the closed, empty channel.
C12_Witness ==
    /\ FreshRun /\ ~interrupted /\ oracle.kind = "none"
    /\ mainPc = "defer"
    /\ WorkersAt("exhausted") = maxGoroutines
    /\ printed = MaxSpace

\* The search went through the whole space without match and without
\* interrupt, and the process has ended by the return of main.
NaturalExit ==
    /\ proc = "exited" /\ mainPc = "return"
    /\ Len(knownWords) < PhraseLen
    /\ ~interrupted /\ reported = Nil
    /\ printed # -1

\* C13: when the search has ended by exhaustion, the saver has run its save
\* of the ctx.Done() branch by the time the process ends, and progress.json
\* then holds the final Progress of the run.
C13_FinalSaveOnExhaustion ==
    NaturalExit =>
        /\ saverPc = "done"
        /\ file.by = "this run" => file.data = Marshal(progress)

\* The number whose digits in base l, most significant first, are ds.
RECURSIVE ValueOf(_, _, _)
ValueOf(ds, l, acc) ==
    IF ds = <<>> THEN acc ELSE ValueOf(Tail(ds), l, acc * l + Head(ds))

\* C14: the digits decoded for an index are its representation in base L,
\* most significant digit first: the last digit is the index mod L and, for
\* L >= 2, differs from one index to the next; the first digit is the index
\* divided by L^(k-1) and never goes down.
C14_DigitOrder ==
    /\ [](LET k == Len(dec.indices)
              i == dec.i - 1
          IN  (dec.l >= 1 /\ dec.i >= 1) =>
                /\ \A j \in 1..k : dec.indices[j] \in 0..(dec.l - 1)
                /\ ValueOf(dec.indices, dec.l, 0) = i
                /\ k >= 1 =>
                      /\ dec.indices[k] = i % dec.l
                      /\ dec.indices[1] = i \div (dec.l ^ (k - 1)))
    /\ [][LET k == Len(dec.indices)
          IN  (dec.i >= 1 /\ dec'.i = dec.i + 1 /\ k >= 1) =>
                /\ dec.l >= 2 => dec'.indices[k] # dec.indices[k]
                /\ dec'.indices[1] >= dec.indices[1]]_vars

\* The index L^(k-1) + L - 1 of the largest wordlist and the most missing
\* words was decoded to 1, 0, ..., 0, L - 1.
C14_Witness ==
    /\ dec.l = MaxRadix /\ Len(dec.indices) = MaxDigits
    /\ dec.i - 1 = MaxRadix ^ (MaxDigits - 1) + MaxRadix - 1
    /\ dec.indices = [j \in 1..MaxDigits |->
                        IF j = 1 THEN 1
                        ELSE IF j = MaxDigits THEN MaxRadix - 1 ELSE 0]

\* A write of progress.json by this run has failed.
WriteFailed == file.by = "this run" /\ file.state = "malformed"

\* C15: a step of the saver, whatever its save did to progress.json, leaves
\* the Progress in memory, the channel, main, the generator, the workers and
\* the process as they were; the saver leaves its loop only when ctx.Done()
\* is closed, so that after a failed save it can save again and the process
\* keeps running; what a step writes is the Progress in memory or, when the
\* write fails, nothing usable; a run of at most 12 words does not crash
\* after a failed write.
C15_WriteFailureTolerated ==
    /\ [][((file' # file \/ saverPc' # saverPc) /\ mainPc # "start") =>
            /\ UNCHANGED <<progress, ctxDone, interrupted, jobs, jobsClosed,
                           wg, mainPc, gen, workers, proc, reported,
                           printed>>
            /\ saverPc' # saverPc =>
                  (saverPc = "select" /\ saverPc' = "done" /\ ctxDone)
            /\ file' \in {saveProgress(file, progress, o) :
                            o \in SaveOutcomes}]_vars
    /\ []((proc = "running" /\ saverPc = "select") => ENABLED SaverTick)
    /\ []((WriteFailed /\ ~TooManyWords) => proc # "panicked")

\* After a failed write the fresh search has gone through the largest space
\* and printed its size, the saver still in its loop.
C15_Witness ==
    /\ WriteFailed
    /\ FreshRun /\ ~interrupted /\ oracle.kind # "match"
    /\ mainPc = "defer" /\ saverPc = "select"
    /\ InputTotal = MaxSpace
    /\ printed = MaxSpace

\* The generator is blocked in its send (line 332) on a full channel and no
\* worker is left to receive from it.
GeneratorStuck ==
    /\ mainPc = "send"
    /\ Len(jobs) = maxGoroutines
    /\ WorkersRunning = 0

\* C16: after an interrupt, as long as the process runs, main or a worker
\* can take a step (which fair scheduling then makes it take, up to the exit
\* of main); in particular the generator is not blocked in its send with
\* every worker gone.
C16_ShutdownTerminates ==
    (interrupted /\ proc = "running") =>
        /\ ~GeneratorStuck
        /\ ENABLED (MainStep \/ WorkerStep)

\* The positions of the phrase that hold no known word of the Progress.
MissingSet == (0..(PhraseLen - 1)) \ {progress.KnownPositions[i] :
                                        i \in 1..Len(progress.KnownWords)}

\* The index of the word w in the wordlist, -1 when it is not in it.
DigitOf(w) ==
    IF \E d \in 0..(Len(wordlist) - 1) : wordlist[d + 1] = w
    THEN CHOOSE d \in 0..(Len(wordlist) - 1) : wordlist[d + 1] = w
    ELSE -1

\* The index whose digits, most significant at the lowest position, are the
\* words of ws at the positions ps.
RECURSIVE IndexOf(_, _)
IndexOf(ws, ps) ==
    IF ps = {} THEN 0
    ELSE LET p == CHOOSE q \in ps : \A r \in ps : q <= r
             rest == ps \ {p}
         IN  DigitOf(ws[p + 1]) * (Len(wordlist) ^ Cardinality(rest))
                + IndexOf(ws, rest)

\* The 12 words ws are the candidate of index idx.
IsCandidate(ws, idx) ==
    /\ Len(ws) = PhraseLen
    /\ \A i \in 1..Len(progress.KnownWords) :
          ws[progress.KnownPositions[i] + 1] = progress.KnownWords[i]
    /\ \A p \in MissingSet : DigitOf(ws[p + 1]) >= 0
    /\ IndexOf(ws, MissingSet) = idx

\* C17: every job in the channel, the job a worker holds and the words
\* given to checkWallet are the candidate of the job's index: 12 words, each
\* known word of the Progress at its known position and, at the missing
\* positions in ascending order, the words of the wordlist chosen by the
\* digits of the index; this stays so while the generator writes later
\* candidates into its buffer.
C17_CandidateIntegrity ==
    (BruteForce /\ mainPc \notin {"start", "geninit"}) =>
        /\ \A j \in DOMAIN jobs : IsCandidate(jobs[j].words, jobs[j].idx)
        /\ \A w \in BagToSet(workers) :
              w.job.idx >= 0 => IsCandidate(w.job.words, w.job.idx)
        /\ mainPc = "send" => IsCandidate(gen.pending, gen.i)

\* A worker is inside checkWallet on the candidate of index 0 while a later
\* candidate is queued and the generator has written the one after it into
\* its buffer.
C17_Witness ==
    /\ BruteForce /\ mainPc = "send"
    /\ \E w \in BagToSet(workers) : w.pc = "check" /\ w.job.idx = 0
    /\ jobs # <<>> /\ Head(jobs).idx = 1
    /\ gen.i >= 2
    /\ gen.words # Head(jobs).words

\* The last_index the run was started with: the loaded one, or -1.
LoadedLast ==
    IF startFile.state = "valid" THEN startFile.data.last_index ELSE -1

\* C18: the generator starts at the loaded last index + 1 and each index it
\* puts into jobs is the last one enqueued + 1, so that the indices enqueued
\* ascend and none is at or below the loaded last index; LastIndex never
\* decreases; the indices in jobs ascend and are above every index a worker
\* has received, and the index a worker receives is above the one it
\* received before.
C18_Ordering ==
    /\ []((BruteForce /\ mainPc \notin {"start", "geninit"}) =>
            /\ gen.startIndex = LoadedLast + 1
            /\ progress.LastIndex >= LoadedLast
            /\ gen.i = progress.LastIndex + 1
            /\ \A j \in DOMAIN jobs :
                  /\ jobs[j].idx > LoadedLast
                  /\ j > 1 => jobs[j].idx > jobs[j - 1].idx
                  /\ \A w \in BagToSet(workers) : jobs[j].idx > w.job.idx
            /\ \A w \in BagToSet(workers) :
                  w.job.idx >= 0 => w.job.idx > LoadedLast)
    /\ [][(BruteForce /\ mainPc \notin {"start", "geninit"}) =>
            /\ progress'.LastIndex >= progress.LastIndex
            /\ Len(jobs') > Len(jobs) =>
                  /\ jobs'[Len(jobs')].idx = progress.LastIndex + 1
                  /\ progress'.LastIndex = progress.LastIndex + 1
            /\ \A v \in BagToSet(workers') :
                  (v.pc = "select"
                     /\ CopiesIn(v, workers') > CopiesIn(v, workers)) =>
                        \E w \in BagToSet(workers) :
                            /\ w.pc = "recv"
                            /\ w.job.idx < v.job.idx
                            /\ workers' = Moved(w, v)]_vars

\* A run resumed after index 0: its one worker has tested index 1, is
\* inside checkWallet on index 2, and index 3 is queued.
C18_Witness ==
    /\ BruteForce /\ mainPc \notin {"start", "geninit"}
    /\ LoadedLast = 0
    /\ DOMAIN called = 0..3
    /\ called[0] = 0 /\ called[1] = 1
    /\ \E w \in BagToSet(workers) : w.pc = "check" /\ w.job.idx = 2
    /\ jobs # <<>> /\ Head(jobs).idx = 3

\* The tested_combinations the run was started with: the loaded one, or 0.
LoadedTested ==
    IF startFile.state = "valid" THEN startFile.data.tested_combinations
    ELSE 0

\* Indices enqueued by this run that no worker has finished testing.
RunAhead ==
    (progress.LastIndex + 1 - gen.startIndex)
        - (progress.TestedCombos - LoadedTested)

\* Number of workers holding a job whose test they have not finished.
WorkersHolding ==
    WorkersAt("select") + WorkersAt("check") + WorkersAt("found")
        + WorkersAt("cancelled")

\* C19: the indices enqueued and not yet tested are those in the channel
\* and those held by the workers, at most one each: they are never more
\* than the capacity of jobs plus the number of workers, 2 * MaxGoroutines.
C19_BoundedRunAhead ==
    (BruteForce /\ mainPc \notin {"start", "geninit"}) =>
        /\ Len(jobs) <= maxGoroutines
        /\ BagCardinality(workers) = maxGoroutines
        /\ RunAhead = Len(jobs) + WorkersHolding
        /\ RunAhead >= 0
        /\ RunAhead <= maxGoroutines + maxGoroutines

\* With the most workers, the channel is full and every worker holds an
\* index it has not finished testing.
C19_Witness ==
    /\ BruteForce /\ mainPc \notin {"start", "geninit"}
    /\ maxGoroutines = MaxWorkers
    /\ Len(jobs) = maxGoroutines
    /\ WorkersAt("check") = maxGoroutines
    /\ RunAhead = 2 * MaxWorkers

====
